---- MODULE Spec2Model ----
(***************************************************************************)
(* A model of FreeCommodityService (src/free_commodity_service.py): the    *)
(* price-acquisition fallback chain, the synthetic price generator, the    *)
(* market resolver and the market analysis; and of the crop suitability    *)
(* score of IndianAgriculturalDatabase (src/agricultural_database.py).     *)
(*                                                                         *)
(* Money is an integer number of thousandths of a rupee ("mills"), so that *)
(* a price with two decimals, its half, its tenth and the trend formula's  *)
(* 0.5*i*i and 0.2*i*i terms are all exact: 2000 rupees is 2000000.        *)
(***************************************************************************)
EXTENDS Integers, Sequences, FiniteSets

VARIABLES
    mock_prices,   \* self.mock_prices: the loaded catalog, in file order
    location,      \* the Location of the batch request (none made yet: no state)
    pc,            \* position of get_commodity_prices
    commodities,   \* the batch request's list of commodity names
    i,             \* index (1-based) of the commodity the loop is at
    prices,        \* the list get_commodity_prices builds
    trace,         \* per requested commodity, the steps taken for it
    ret            \* the record of the last completed query call

vars == <<mock_prices, location, pc, commodities, i, prices, trace, ret>>

-----------------------------------------------------------------------------
(* Bounds of the model *)

MaxRequest == 2    \* longest explicit commodities list of a batch request
MaxDays == 5       \* largest days argument of get_price_trends
MaxBatch == 5      \* longest batch handed to get_market_analysis
RandSteps == 4     \* random.random() takes the values k/RandSteps, k in 0..RandSteps

-----------------------------------------------------------------------------
(* Inputs *)

Trends == {"increasing", "decreasing", "stable"}

\* A mock_prices.json with three entries. Wheat's low baseline puts the
\* decreasing curve under the floor within MaxDays, Jute's baseline has a
\* tenth that is not a whole number of hundredths, Wheat lists no market.
FullCatalog ==
    << [name |-> "Rice", current_price |-> 2500000, trend |-> "increasing",
        markets |-> <<"Punjab", "Delhi">>, unit |-> "quintal"],
       [name |-> "Wheat", current_price |-> 20000, trend |-> "decreasing",
        markets |-> <<>>, unit |-> "kg"],
       [name |-> "Jute", current_price |-> 10060, trend |-> "stable",
        markets |-> <<"Kolkata">>, unit |-> "kg"] >>

\* _initialize_realistic_prices: the file's content, or {} when it cannot be
\* read or parsed.
initialize_realistic_prices(loaded) ==
    IF loaded.ok THEN loaded.data ELSE <<>>

CatalogFiles == {[ok |-> TRUE, data |-> FullCatalog], [ok |-> FALSE, data |-> <<>>]}

\* Rice, Wheat: in the catalog, with an Agmarknet code. Jute: in the catalog,
\* no code. Onion: a code, not in the catalog. Quinoa: neither.
CommodityNames == {"Rice", "Wheat", "Jute", "Onion", "Quinoa"}

\* Maharashtra and Haryana are in the state-to-market table, Goa is not.
LocationStates == {"Maharashtra", "Haryana", "Goa", ""}

KnownMarketLists == {<<>>, <<"Kolkata">>, <<"Punjab", "Delhi">>, <<"">>}

-----------------------------------------------------------------------------
(* The catalog as a mapping *)

Keys(cat) == [k \in 1..Len(cat) |-> cat[k].name]

InCatalog(cat, c) == \E k \in 1..Len(cat) : cat[k].name = c

Entry(cat, c) == cat[CHOOSE k \in 1..Len(cat) : cat[k].name = c]

-----------------------------------------------------------------------------
(* round(x, 2) of the value num/den mills (den > 0): the results it can    *)
(* have, in mills. A value half way between two hundredths goes to either  *)
(* neighbour: which one depends on the binary double nearest to it.        *)

Round2(num, den) ==
    LET q == num \div (10 * den)
        r == num - q * 10 * den
    IN  IF 2 * r < 10 * den THEN {10 * q}
        ELSE IF 2 * r > 10 * den THEN {10 * (q + 1)}
        ELSE {10 * q, 10 * (q + 1)}

-----------------------------------------------------------------------------
(* _find_closest_market *)

state_market_mapping ==
    [s \in {"Delhi", "Haryana", "Punjab", "UP", "Uttar Pradesh", "Maharashtra",
            "Gujarat", "Karnataka", "Tamil Nadu", "West Bengal", "Bihar",
            "Rajasthan", "Madhya Pradesh", "Andhra Pradesh", "Telangana",
            "Kerala", "Odisha", "Assam"} |->
        CASE s = "Haryana" -> "Delhi"
          [] s = "Uttar Pradesh" -> "UP"
          [] s = "Maharashtra" -> "Mumbai"
          [] s = "Tamil Nadu" -> "Chennai"
          [] s = "West Bengal" -> "Kolkata"
          [] OTHER -> s]

find_closest_market_markets_first(loc, markets) ==
    IF markets # <<>> THEN markets[1]
    ELSE IF loc.state \in DOMAIN state_market_mapping
    THEN state_market_mapping[loc.state]
    ELSE loc.state

find_closest_market_no_fallback(loc, markets) ==
    IF loc.state \in DOMAIN state_market_mapping
    THEN state_market_mapping[loc.state]
    ELSE ""

find_closest_market(loc, markets) ==
    IF loc.state \in DOMAIN state_market_mapping
    THEN state_market_mapping[loc.state]
    ELSE IF markets # <<>> THEN markets[1] ELSE loc.state

-----------------------------------------------------------------------------
(* _create_mock_price *)

\* The price data of a commodity: the catalog's entry, or the defaults.
price_data(cat, commodity, loc) ==
    IF ~InCatalog(cat, commodity)
    THEN [current_price |-> 2000000, trend |-> "stable",
          markets |-> <<loc.state>>, unit |-> "quintal"]
    ELSE Entry(cat, commodity)

\* Ten times base_price * 0.1.
variation10_double(base_price) == base_price * 2

variation10(base_price) == base_price * 1

\* round(base_price + random.uniform(-variation, variation), 2), where
\* uniform(a, b) is a + (b - a) * random() and random() is k/RandSteps:
\* the value is (10*RandSteps*base + variation10*(2k - RandSteps)) over
\* 10*RandSteps.
mock_current_price(base_price, k) ==
    Round2(10 * RandSteps * base_price
             + variation10(base_price) * (2 * k - RandSteps),
           10 * RandSteps)

\* CommodityPrice(...), the date left out.
CommodityPrice(name, price, trend, market) ==
    [commodity_name |-> name, current_price |-> price,
     price_trend |-> trend, market_location |-> market]

\* The outcomes of a call: the CommodityPrice records it can return, one
\* for each value of the random variation and of the rounding.
mock_price_outcomes(pd, commodity, loc) ==
    LET closest_market == find_closest_market(loc, pd.markets)
    IN  { [kind |-> "return",
           val |-> CommodityPrice(commodity, p, pd.trend, closest_market)] :
          p \in UNION {mock_current_price(pd.current_price, k) : k \in 0..RandSteps} }

\* The call with self.mock_prices[commodity] read for every commodity.
create_mock_price_no_default(cat, commodity, loc) ==
    IF ~InCatalog(cat, commodity)
    THEN {[kind |-> "raise", val |-> CommodityPrice(commodity, 0, "", "")]}
    ELSE mock_price_outcomes(Entry(cat, commodity), commodity, loc)

create_mock_price(cat, commodity, loc) ==
    mock_price_outcomes(price_data(cat, commodity, loc), commodity, loc)

-----------------------------------------------------------------------------
(* get_price_trends *)

\* The price of day index d before the floor.
trend_curve(base_price, trend, d) ==
    IF trend = "increasing" THEN base_price + d * 15000 + d * d * 500
    ELSE IF trend = "decreasing" THEN base_price - d * 8000 + d * d * 200
    ELSE base_price + (IF d % 2 = 0 THEN d * 5000 ELSE -d * 3000)

trend_price_no_floor(base_price, trend, d) == trend_curve(base_price, trend, d)

\* max(price, base_price * 0.5); the catalog's baselines are even in mills.
trend_price(base_price, trend, d) ==
    LET price == trend_curve(base_price, trend, d)
    IN  IF 2 * price >= base_price THEN price ELSE base_price \div 2

\* The list built by the loop over range(days); ago is days - i, the number
\* of days before now the entry is dated.
price_history(base_price, trend, days) ==
    [j \in 1..days |-> [ago |-> days - (j - 1),
                        price |-> trend_price(base_price, trend, j - 1)]]

get_price_trends(cat, commodity, days) ==
    IF ~InCatalog(cat, commodity)
    THEN [kind |-> "error", error |-> "Commodity not found"]
    ELSE LET base_price == Entry(cat, commodity).current_price
             trend == Entry(cat, commodity).trend
             hist == price_history(base_price, trend, days)
         IN  IF hist = <<>>
             THEN [kind |-> "raised", exception |-> "IndexError"]  \* prices[-1]
             ELSE [kind |-> "summary", commodity |-> commodity, trend |-> trend,
                   price_history |-> hist, current_price |-> base_price,
                   price_change |-> hist[Len(hist)].price - hist[1].price]

-----------------------------------------------------------------------------
(* get_market_analysis *)

count_trend_skip_first(batch, t) ==
    Cardinality({k \in 2..Len(batch) : batch[k].price_trend = t})

\* sum(1 for p in prices if p.price_trend == t)
count_trend(batch, t) ==
    Cardinality({k \in 1..Len(batch) : batch[k].price_trend = t})

RECURSIVE sum_prices(_)
sum_prices(batch) ==
    IF batch = <<>> THEN 0
    ELSE batch[1].current_price + sum_prices(Tail(batch))

\* max(prices, key=current_price) and min(...): the first one among equals.
best_of(batch) ==
    batch[CHOOSE k \in 1..Len(batch) :
            /\ \A m \in 1..Len(batch) : batch[m].current_price <= batch[k].current_price
            /\ \A m \in 1..(k - 1) : batch[m].current_price < batch[k].current_price]

worst_of(batch) ==
    batch[CHOOSE k \in 1..Len(batch) :
            /\ \A m \in 1..Len(batch) : batch[m].current_price >= batch[k].current_price
            /\ \A m \in 1..(k - 1) : batch[m].current_price > batch[k].current_price]

calculate_market_sentiment_at_least(increasing, decreasing, stable) ==
    LET total == increasing + decreasing + stable
    IN  IF total = 0 THEN "Neutral"
        ELSE IF increasing * 100 >= 60 * total THEN "Bullish"
        ELSE IF decreasing * 100 >= 60 * total THEN "Bearish"
        ELSE "Neutral"

\* (increasing / total) * 100 > 60, as a comparison of integers.
calculate_market_sentiment(increasing, decreasing, stable) ==
    LET total == increasing + decreasing + stable
    IN  IF total = 0 THEN "Neutral"
        ELSE IF increasing * 100 > 60 * total THEN "Bullish"
        ELSE IF decreasing * 100 > 60 * total THEN "Bearish"
        ELSE "Neutral"

\* increasing > total * 0.6, as a comparison of integers.
get_market_recommendation(increasing, decreasing, total) ==
    IF total = 0 THEN "No data available"
    ELSE IF increasing * 10 > total * 6 THEN "upward"
    ELSE IF decreasing * 10 > total * 6 THEN "declining"
    ELSE "stable"

\* The results of a call: one for each value round(avg_price, 2) can take.
get_market_analysis(batch) ==
    IF batch = <<>>
    THEN {[kind |-> "error", error |-> "No price data available"]}
    ELSE LET total_commodities == Len(batch)
             increasing_trends == count_trend(batch, "increasing")
             decreasing_trends == count_trend(batch, "decreasing")
             stable_trends == count_trend(batch, "stable")
         IN  { [kind |-> "summary",
                market_sentiment |->
                    calculate_market_sentiment(increasing_trends, decreasing_trends,
                                               stable_trends),
                average_price |-> avg,
                trend_distribution |->
                    [increasing |-> increasing_trends,
                     decreasing |-> decreasing_trends,
                     stable |-> stable_trends],
                best_performing |-> best_of(batch),
                worst_performing |-> worst_of(batch),
                market_recommendation |->
                    get_market_recommendation(increasing_trends, decreasing_trends,
                                              total_commodities)] :
               avg \in Round2(sum_prices(batch), Len(batch)) }

-----------------------------------------------------------------------------
(* _fetch_agmarknet_price, _fetch_other_sources *)

commodity_codes ==
    [c \in {"Rice", "Wheat", "Maize", "Sugarcane", "Cotton", "Soybean",
            "Groundnut", "Potato", "Onion", "Tomato"} |->
        CASE c = "Rice" -> "1101" [] c = "Wheat" -> "1102" [] c = "Maize" -> "1103"
          [] c = "Sugarcane" -> "1104" [] c = "Cotton" -> "1105"
          [] c = "Soybean" -> "1106" [] c = "Groundnut" -> "1107"
          [] c = "Potato" -> "1108" [] c = "Onion" -> "1109" [] c = "Tomato" -> "1110"]

\* What self.session.get(url, timeout=10) can do. kind "timeout": the
\* request raises. body: "not_json" (response.json() raises), "no_price_key",
\* "empty_list", or "entry" (data['price'][0] is a mapping). price_kind:
\* "absent" (no 'price' key), "number", "text" (float() raises).
Response(kind, status, body, price_kind, price, has_market, market) ==
    [kind |-> kind, status |-> status, body |-> body, price_kind |-> price_kind,
     price |-> price, has_market |-> has_market, market |-> market]

AgmarknetOutcomes ==
    { Response("timeout", 0, "", "", 0, FALSE, ""),
      Response("http", 500, "", "", 0, FALSE, ""),
      Response("http", 200, "not_json", "", 0, FALSE, ""),
      Response("http", 200, "no_price_key", "", 0, FALSE, ""),
      Response("http", 200, "empty_list", "", 0, FALSE, ""),
      Response("http", 200, "entry", "number", 2150000, TRUE, "Azadpur"),
      Response("http", 200, "entry", "number", -5000, FALSE, ""),
      Response("http", 200, "entry", "absent", 0, FALSE, ""),
      Response("http", 200, "entry", "text", 0, TRUE, "Azadpur") }

NoPrice(commodity) == CommodityPrice(commodity, 0, "", "")

\* The body of the try block: a return (of a price or of None) or a raise.
agmarknet_try_body(commodity, loc, o) ==
    IF commodity \notin DOMAIN commodity_codes
    THEN [kind |-> "none", val |-> NoPrice(commodity)]
    ELSE IF o.kind = "timeout"
    THEN [kind |-> "raise", val |-> NoPrice(commodity)]
    ELSE IF o.status # 200
    THEN [kind |-> "none", val |-> NoPrice(commodity)]
    ELSE IF o.body = "not_json"
    THEN [kind |-> "raise", val |-> NoPrice(commodity)]
    ELSE IF o.body \in {"no_price_key", "empty_list"}
    THEN [kind |-> "none", val |-> NoPrice(commodity)]
    ELSE IF o.price_kind = "text"
    THEN [kind |-> "raise", val |-> NoPrice(commodity)]
    ELSE [kind |-> "price",
          val |-> CommodityPrice(commodity,
                                 IF o.price_kind = "absent" THEN 0 ELSE o.price,
                                 "stable",
                                 IF o.has_market THEN o.market ELSE loc.state)]

fetch_agmarknet_price_no_catch(commodity, loc, o) ==
    agmarknet_try_body(commodity, loc, o)

\* except Exception: print, then return None.
fetch_agmarknet_price(commodity, loc, o) ==
    LET r == agmarknet_try_body(commodity, loc, o)
    IN  IF r.kind = "raise" THEN [kind |-> "none", val |-> NoPrice(commodity)] ELSE r

fetch_other_sources(commodity, loc) == [kind |-> "none", val |-> NoPrice(commodity)]

-----------------------------------------------------------------------------
(* IndianAgriculturalDatabase.get_crop_suitability                         *)
(* (src/agricultural_database.py). A score is an integer number of 500ths, *)
(* in which 1 - diff/10, 1 - diff/500 and 1 - diff/20 are exact for whole  *)
(* readings; the returned mean of the 4 factors is num over den.           *)

\* A crop_data.json with two crops: the fields get_crop_suitability reads.
CropTable ==
    << [name |-> "Rice", temperature_range |-> <<20, 35>>,
        rainfall_requirement |-> <<1000, 2000>>, humidity_requirement |-> <<60, 80>>],
       [name |-> "Wheat", temperature_range |-> <<10, 25>>,
        rainfall_requirement |-> <<400, 800>>, humidity_requirement |-> <<50, 70>>] >>

\* _initialize_crop_database: the file's content, or {} when it cannot be
\* read or parsed.
initialize_crop_database(loaded) ==
    IF loaded.ok THEN loaded.data ELSE <<>>

CropFiles == {[ok |-> TRUE, data |-> CropTable], [ok |-> FALSE, data |-> <<>>]}

\* Rice and Wheat are in the crop table, Quinoa is not.
CropNames == {"Rice", "Wheat", "Quinoa"}

\* _initialize_regional_data: the major_crops of each state.
regional_major_crops ==
    [s \in {"Punjab", "Haryana", "Uttar Pradesh", "Maharashtra", "Gujarat",
            "Karnataka", "Tamil Nadu", "West Bengal"} |->
        CASE s = "Punjab" -> {"Wheat", "Rice", "Cotton", "Sugarcane"}
          [] s = "Haryana" -> {"Wheat", "Rice", "Cotton", "Sugarcane"}
          [] s = "Uttar Pradesh" -> {"Wheat", "Rice", "Sugarcane", "Potato"}
          [] s = "Maharashtra" -> {"Sugarcane", "Cotton", "Soybean", "Onion"}
          [] s = "Gujarat" -> {"Cotton", "Groundnut", "Wheat", "Onion"}
          [] s = "Karnataka" -> {"Maize", "Sugarcane", "Tomato", "Onion"}
          [] s = "Tamil Nadu" -> {"Rice", "Sugarcane", "Groundnut", "Cotton"}
          [] s = "West Bengal" -> {"Rice", "Potato", "Jute", "Tea"}]

\* Punjab: Rice and Wheat are major crops. Gujarat: Wheat is, Rice is not.
\* Maharashtra: neither is. Goa: not in the regional data.
SuitabilityLocations == {"Punjab", "Gujarat", "Maharashtra", "Goa"}

\* A key of weather_conditions: absent, or a whole reading.
Reading(given, value) == [given |-> given, value |-> value]

Readings(values) == {Reading(FALSE, 0)} \cup {Reading(TRUE, v) : v \in values}

\* weather_conditions: readings inside the ranges, just outside them and
\* further away than the decay reaches.
WeatherConditions ==
    [temperature : Readings({-5, 8, 22, 40}),
     rainfall : Readings({0, 300, 1200, 2600}),
     humidity : Readings({10, 45, 65, 95})]

\* weather_conditions.get(key, default)
reading_or(r, default) == IF r.given THEN r.value ELSE default

Abs(x) == IF x < 0 THEN -x ELSE x

Min2(a, b) == IF a <= b THEN a ELSE b

Max2(a, b) == IF a >= b THEN a ELSE b

\* The score of one reading against a range: 1.0 inside it, otherwise
\* max(0, 1.0 - diff / span), in 500ths; per_unit is 500 / span.
closeness(value, range, per_unit) ==
    IF range[1] <= value /\ value <= range[2] THEN 500
    ELSE Max2(0, 500 - per_unit * Min2(Abs(value - range[1]), Abs(value - range[2])))

CropInTable(db, crop) == \E k \in 1..Len(db) : db[k].name = crop

CropInfo(db, crop) == db[CHOOSE k \in 1..Len(db) : db[k].name = crop]

\* The regional suitability added to the score: nothing when the location is
\* not in the regional data.
regional_score(crop, loc) ==
    IF loc \in DOMAIN regional_major_crops
    THEN IF crop \in regional_major_crops[loc] THEN 500 ELSE 250
    ELSE 0

get_crop_suitability(db, crop, loc, weather) ==
    IF ~CropInTable(db, crop) THEN [num |-> 0, den |-> 1]
    ELSE LET crop_info == CropInfo(db, crop)
             score == closeness(reading_or(weather.temperature, 25),
                                crop_info.temperature_range, 50)
                      + closeness(reading_or(weather.rainfall, 500),
                                  crop_info.rainfall_requirement, 1)
                      + closeness(reading_or(weather.humidity, 60),
                                  crop_info.humidity_requirement, 25)
                      + regional_score(crop, loc)
             factors == 4
         IN  [num |-> score, den |-> 500 * factors]

-----------------------------------------------------------------------------
(* The state machine *)

NoCall == [op |-> "none"]

\* The explicit commodities lists of a batch request.
Requests == UNION {[1..n -> CommodityNames] : n \in 0..MaxRequest}

\* CommodityPrice records a caller can hand to get_market_analysis.
SamplePrices ==
    { CommodityPrice("Rice", 2500000, "increasing", "Punjab"),
      CommodityPrice("Wheat", 18500, "decreasing", "Delhi"),
      CommodityPrice("Jute", 10060, "stable", "Kolkata") }

Batches == UNION {[1..n -> SamplePrices] : n \in 0..MaxBatch}

Init ==
    /\ mock_prices \in {initialize_realistic_prices(f) : f \in CatalogFiles}
    /\ location = [state |-> ""]
    /\ pc = "idle"
    /\ commodities = <<>>
    /\ i = 1
    /\ prices = <<>>
    /\ trace = <<>>
    /\ ret = NoCall

\* Where get_commodity_prices goes once the commodity at index k is dealt
\* with: into the next iteration (which first awaits _fetch_agmarknet_price)
\* or to its return.
after_commodity(k, list) == IF k < Len(list) THEN "agmarknet" ELSE "done"

Step(source, r) == [source |-> source, kind |-> r.kind, price |-> r.val.current_price]

Logged(step) ==
    IF Len(trace) < i THEN Append(trace, <<step>>)
    ELSE [trace EXCEPT ![i] = Append(@, step)]

\* prices.append(p), and on to the next commodity.
Appended(p, step) ==
    /\ prices' = Append(prices, p)
    /\ trace' = Logged(step)
    /\ pc' = after_commodity(i, commodities)
    /\ i' = i + 1
    /\ UNCHANGED <<mock_prices, location, commodities, ret>>

\* The service is constructed and no call has been made. No call changes
\* the service (mock_prices is only read), so the calls of a behaviour are
\* one batch request, or one query: every result of a call after another is
\* a result of that call made first.
Fresh == pc = "idle" /\ ret = NoCall

\* get_commodity_prices(location, commodities) up to its first await.
GetCommodityPrices(loc, given, list) ==
    /\ Fresh
    /\ location' = loc
    /\ commodities' = IF given THEN list ELSE Keys(mock_prices)
    /\ prices' = <<>>
    /\ trace' = <<>>
    /\ i' = 1
    /\ pc' = after_commodity(0, commodities')
    /\ ret' = NoCall
    /\ UNCHANGED mock_prices

\* _fetch_real_price's await of _fetch_agmarknet_price, and what follows it
\* up to the next await: a price is returned and appended; None goes on to
\* the other sources; a raise is caught by _fetch_real_price, which returns
\* None, so that the mock price is next.
FetchAgmarknetPrice(o) ==
    /\ pc = "agmarknet"
    /\ LET r == fetch_agmarknet_price(commodities[i], location, o)
       IN  IF r.kind = "price"
           THEN Appended(r.val, Step("agmarknet", r))
           ELSE /\ trace' = Logged(Step("agmarknet", r))
                /\ pc' = IF r.kind = "none" THEN "other" ELSE "mock"
                /\ UNCHANGED <<mock_prices, location, commodities, i, prices, ret>>

\* _fetch_real_price's await of _fetch_other_sources.
FetchOtherSources ==
    /\ pc = "other"
    /\ LET r == fetch_other_sources(commodities[i], location)
       IN  IF r.kind = "price"
           THEN Appended(r.val, Step("other", r))
           ELSE /\ trace' = Logged(Step("other", r))
                /\ pc' = "mock"
                /\ UNCHANGED <<mock_prices, location, commodities, i, prices, ret>>

\* The fallback of get_commodity_prices: _create_mock_price inside the try,
\* and, when that raises, once more in the except block, where a raise
\* leaves get_commodity_prices.
CreateMockPrice ==
    /\ pc = "mock"
    /\ \E r1 \in create_mock_price(mock_prices, commodities[i], location) :
         IF r1.kind = "return"
         THEN Appended(r1.val, Step("synthetic", r1))
         ELSE \E r2 \in create_mock_price(mock_prices, commodities[i], location) :
                IF r2.kind = "return"
                THEN Appended(r2.val, Step("synthetic", r2))
                ELSE /\ pc' = "raised"
                     /\ trace' = Logged(Step("synthetic", r2))
                     /\ UNCHANGED <<mock_prices, location, commodities, i, prices, ret>>

Query(call) ==
    /\ ret' = call
    /\ UNCHANGED <<mock_prices, location, pc, commodities, i, prices, trace>>

\* _find_closest_market(location, markets)
FindClosestMarket(loc, markets) ==
    /\ Fresh
    /\ Query([op |-> "find_closest_market", location |-> loc, markets |-> markets,
              out |-> find_closest_market(loc, markets)])

\* _create_mock_price(commodity, location)
CallCreateMockPrice(commodity, loc) ==
    /\ Fresh
    /\ \E r \in create_mock_price(mock_prices, commodity, loc) :
         Query([op |-> "create_mock_price", commodity |-> commodity,
                location |-> loc, out |-> r])

\* get_price_trends(commodity, days)
GetPriceTrends(commodity, days) ==
    /\ Fresh
    /\ Query([op |-> "get_price_trends", commodity |-> commodity, days |-> days,
              out |-> get_price_trends(mock_prices, commodity, days)])

\* get_market_analysis(prices)
GetMarketAnalysis(batch) ==
    \E r \in get_market_analysis(batch) :
        Query([op |-> "get_market_analysis", batch |-> batch, out |-> r])

\* get_market_analysis of a caller's batch.
AnalyseBatch == Fresh /\ \E batch \in Batches : GetMarketAnalysis(batch)

\* get_market_analysis of the batch get_commodity_prices has returned.
AnalysePrices == pc = "done" /\ ret = NoCall /\ GetMarketAnalysis(prices)

\* get_crop_suitability(crop, location, weather_conditions) of a database
\* constructed from a crop data file.
GetCropSuitability(f, crop, loc, weather) ==
    /\ Fresh
    /\ Query([op |-> "get_crop_suitability", crop_data |-> initialize_crop_database(f),
              crop |-> crop, location |-> loc, weather |-> weather,
              out |-> get_crop_suitability(initialize_crop_database(f), crop, loc,
                                           weather)])

Next ==
    \/ Fresh /\ \E s \in LocationStates, list \in Requests :
                  GetCommodityPrices([state |-> s], TRUE, list)
    \/ Fresh /\ \E s \in LocationStates : GetCommodityPrices([state |-> s], FALSE, <<>>)
    \/ pc = "agmarknet" /\ \E o \in AgmarknetOutcomes : FetchAgmarknetPrice(o)
    \/ FetchOtherSources
    \/ CreateMockPrice
    \/ Fresh /\ \E s \in LocationStates, markets \in KnownMarketLists :
                  FindClosestMarket([state |-> s], markets)
    \/ Fresh /\ \E c \in CommodityNames, s \in LocationStates :
                  CallCreateMockPrice(c, [state |-> s])
    \/ Fresh /\ \E c \in CommodityNames, days \in 0..MaxDays : GetPriceTrends(c, days)
    \/ AnalyseBatch
    \/ AnalysePrices
    \/ Fresh /\ \E f \in CropFiles, crop \in CropNames, loc \in SuitabilityLocations,
                  weather \in WeatherConditions :
                  GetCropSuitability(f, crop, loc, weather)

Spec == Init /\ [][Next]_vars

-----------------------------------------------------------------------------
(* Properties *)

InFlight == pc \in {"agmarknet", "other", "mock"}

\* C1: get_commodity_prices never raises, always has a next step until it
\* returns, and returns one CommodityPrice per requested commodity, the k-th
\* one naming the k-th requested commodity.
C1_OnePricePerCommodity ==
    /\ pc # "raised"
    /\ InFlight =>
         /\ i \in 1..Len(commodities)
         /\ Len(prices) = i - 1
         /\ ENABLED ((\E o \in AgmarknetOutcomes : FetchAgmarknetPrice(o))
                       \/ FetchOtherSources \/ CreateMockPrice)
    /\ pc = "done" => Len(prices) = Len(commodities)
    /\ \A k \in 1..Len(prices) : prices[k].commodity_name = commodities[k]

\* A returned batch of two: an unknown commodity, then a catalog one whose
\* price is synthetic although it has an Agmarknet code.
C1_Witness ==
    /\ pc = "done"
    /\ commodities = <<"Quinoa", "Rice">>
    /\ Len(prices) = 2
    /\ trace[2][Len(trace[2])].source = "synthetic"

\* C2: for each commodity the steps are Agmarknet first; a price from it
\* ends the chain and is the result; otherwise the other sources come next,
\* whatever made Agmarknet miss; the synthetic price comes only third, after
\* both have yielded nothing.
C2_ChainOrder ==
    \A k \in 1..Len(trace) :
        LET t == trace[k]
        IN  /\ Len(t) \in 1..3
            /\ t[1].source = "agmarknet"
            /\ t[1].kind = "price" =>
                 /\ Len(t) = 1
                 /\ k < i
                 /\ prices[k].current_price = t[1].price
            /\ t[1].kind # "price" =>
                 /\ Len(t) = 1 => (k = i /\ pc = "other")
                 /\ Len(t) >= 2 => (t[2].source = "other" /\ t[2].kind = "none")
                 /\ Len(t) = 2 => (k = i /\ pc = "mock")
                 /\ Len(t) = 3 =>
                      /\ t[3].source = "synthetic"
                      /\ t[3].kind = "return"
                      /\ k < i
                      /\ prices[k].current_price = t[3].price

\* A returned batch of two commodities with an Agmarknet code: the first one
\* priced by Agmarknet alone, the second one synthetic after both sources.
C2_Witness ==
    /\ pc = "done"
    /\ commodities = <<"Rice", "Wheat">>
    /\ Len(trace[1]) = 1
    /\ trace[1][1].kind = "price"
    /\ Len(trace[2]) = 3

\* C3: every CommodityPrice of a batch has a price >= 0 and one of the three
\* trends.
C3_NonNegativeKnownTrend ==
    \A k \in 1..Len(prices) :
        prices[k].current_price >= 0 /\ prices[k].price_trend \in Trends

\* C4: for a non-empty batch the three counts of trend_distribution add up
\* to the size of the batch.
C4_DistributionSumsToBatch ==
    (ret.op = "get_market_analysis" /\ ret.batch # <<>>) =>
        /\ ret.out.kind = "summary"
        /\ ret.out.trend_distribution.increasing
             + ret.out.trend_distribution.decreasing
             + ret.out.trend_distribution.stable = Len(ret.batch)

\* An analysis of MaxBatch prices in which every trend occurs.
C4_Witness ==
    /\ ret.op = "get_market_analysis"
    /\ Len(ret.batch) = MaxBatch
    /\ ret.out.trend_distribution.increasing > 0
    /\ ret.out.trend_distribution.decreasing > 0
    /\ ret.out.trend_distribution.stable > 0

\* C5, as claimed: _find_closest_market returns a non-empty string for any
\* location and any list of known markets.
C5_AlwaysNonEmpty ==
    ret.op = "find_closest_market" => ret.out # ""

\* The value _find_closest_market falls back to outside the table.
FallbackOf(call) ==
    IF call.markets # <<>> THEN call.markets[1] ELSE call.location.state

\* C5, amended: _find_closest_market returns a string, which is empty only
\* when the state is not in the table and the fallback (the first known
\* market, else the state) is itself the empty string.
C5_NonEmptyUnlessFallbackEmpty ==
    ret.op = "find_closest_market" =>
        /\ ret.out \in STRING
        /\ ret.out = "" <=>
             (ret.location.state \notin DOMAIN state_market_mapping
                /\ FallbackOf(ret) = "")

\* A state outside the table with no known market: the state is returned.
C5_Witness ==
    /\ ret.op = "find_closest_market"
    /\ ret.location.state = "Goa"
    /\ ret.markets = <<>>
    /\ ret.out = "Goa"

\* C6: a state of the table gives the table's market whatever the known
\* markets are (Maharashtra gives Mumbai); any other state gives the first
\* known market, or the state itself when there is none.
C6_TableThenFirstMarketThenState ==
    ret.op = "find_closest_market" =>
        /\ ret.location.state = "Maharashtra" => ret.out = "Mumbai"
        /\ ret.location.state = "Haryana" => ret.out = "Delhi"
        /\ ret.location.state \in DOMAIN state_market_mapping =>
             ret.out = state_market_mapping[ret.location.state]
        /\ ret.location.state \notin DOMAIN state_market_mapping =>
             /\ ret.markets # <<>> => ret.out = ret.markets[1]
             /\ ret.markets = <<>> => ret.out = ret.location.state

\* Maharashtra with known markets that do not hold Mumbai.
C6_Witness ==
    /\ ret.op = "find_closest_market"
    /\ ret.location.state = "Maharashtra"
    /\ ret.markets = <<"Punjab", "Delhi">>
    /\ ret.out = "Mumbai"

\* C7: get_price_trends (days >= 0) and get_market_analysis never raise:
\* each returns its structured error or a summary.
C7_QueriesNeverRaise ==
    ret.op \in {"get_price_trends", "get_market_analysis"} =>
        ret.out.kind \in {"error", "summary"}

\* C8: for a catalog commodity and days >= 1 the price history has days
\* entries, the j-th for day index j - 1, each at least half the baseline.
C8_HistoryLengthAndFloor ==
    (/\ ret.op = "get_price_trends"
     /\ InCatalog(mock_prices, ret.commodity)
     /\ ret.days >= 1) =>
        /\ ret.out.kind = "summary"
        /\ Len(ret.out.price_history) = ret.days
        /\ \A j \in 1..ret.days :
             /\ ret.out.price_history[j].ago = ret.days - (j - 1)
             /\ 2 * ret.out.price_history[j].price
                  >= Entry(mock_prices, ret.commodity).current_price

\* A history of MaxDays entries in which the floor has replaced a price.
C8_Witness ==
    /\ ret.op = "get_price_trends"
    /\ ret.days = MaxDays
    /\ ret.out.kind = "summary"
    /\ \E j \in 1..ret.days :
         /\ 2 * ret.out.price_history[j].price = ret.out.current_price
         /\ 2 * trend_curve(ret.out.current_price, ret.out.trend, j - 1)
              < ret.out.current_price

\* The baseline _create_mock_price starts from.
BaselineOf(call) ==
    price_data(mock_prices, call.commodity, call.location).current_price

\* C9, as claimed: the rounded synthetic price is within [0.9 b, 1.1 b].
C9_WithinTenPercent ==
    ret.op = "create_mock_price" =>
        /\ 10 * ret.out.val.current_price >= 9 * BaselineOf(ret)
        /\ 10 * ret.out.val.current_price <= 11 * BaselineOf(ret)

\* C9, amended: the rounded synthetic price is within 0.005 of
\* [0.9 b, 1.1 b], and within [0.9 b, 1.1 b] when b is a multiple of 0.1.
C9_WithinTenPercentUpToRounding ==
    ret.op = "create_mock_price" =>
        /\ ret.out.kind = "return"
        /\ 10 * ret.out.val.current_price >= 9 * BaselineOf(ret) - 50
        /\ 10 * ret.out.val.current_price <= 11 * BaselineOf(ret) + 50
        /\ BaselineOf(ret) % 100 = 0 =>
             /\ 10 * ret.out.val.current_price >= 9 * BaselineOf(ret)
             /\ 10 * ret.out.val.current_price <= 11 * BaselineOf(ret)

\* The synthetic price of an unknown commodity at the top of its range.
C9_Witness ==
    /\ ret.op = "create_mock_price"
    /\ ret.commodity = "Quinoa"
    /\ ret.out.val.current_price = 2200000

TrendCount(batch, t) == Cardinality({k \in 1..Len(batch) : batch[k].price_trend = t})

\* C10: for a non-empty batch the sentiment is Bullish exactly when more
\* than 60% of the batch is increasing, else Bearish exactly when more than
\* 60% is decreasing, else Neutral.
C10_SentimentThresholds ==
    (ret.op = "get_market_analysis" /\ ret.batch # <<>>) =>
        LET n == Len(ret.batch)
            inc == TrendCount(ret.batch, "increasing")
            dec == TrendCount(ret.batch, "decreasing")
        IN  /\ ret.out.market_sentiment = "Bullish" <=> 100 * inc > 60 * n
            /\ ret.out.market_sentiment = "Bearish" <=>
                 (100 * inc <= 60 * n /\ 100 * dec > 60 * n)
            /\ ret.out.market_sentiment = "Neutral" <=>
                 (100 * inc <= 60 * n /\ 100 * dec <= 60 * n)
            /\ (n = 5 /\ inc = 4) => ret.out.market_sentiment = "Bullish"

\* Exactly 60% increasing, 3 of 5: Neutral.
C10_Witness ==
    /\ ret.op = "get_market_analysis"
    /\ Len(ret.batch) = 5
    /\ TrendCount(ret.batch, "increasing") = 3
    /\ ret.out.market_sentiment = "Neutral"

\* C11: for a crop of the crop table, any location and any weather,
\* get_crop_suitability is within [0, 1] and is the mean of 4 factors: the
\* temperature, rainfall and humidity closeness scores and a regional term
\* that is 1.0 for a major crop of the location and 0.5 otherwise.
C11_MeanOfFourFactors ==
    (ret.op = "get_crop_suitability" /\ CropInTable(ret.crop_data, ret.crop)) =>
        LET info == CropInfo(ret.crop_data, ret.crop)
            major == /\ ret.location \in DOMAIN regional_major_crops
                     /\ ret.crop \in regional_major_crops[ret.location]
        IN  /\ 0 <= ret.out.num
            /\ ret.out.num <= ret.out.den
            /\ 4 * 500 * ret.out.num =
                 ret.out.den *
                   ( closeness(reading_or(ret.weather.temperature, 25),
                               info.temperature_range, 50)
                     + closeness(reading_or(ret.weather.rainfall, 500),
                                 info.rainfall_requirement, 1)
                     + closeness(reading_or(ret.weather.humidity, 60),
                                 info.humidity_requirement, 25)
                     + (IF major THEN 500 ELSE 250) )

====
